---- MODULE Spec2Model ----
(***************************************************************************)
(* Lifecycle of the HTTP listener in the three service variants of the     *)
(* repository (src/main.go, and the heartbeat and JSON-logging variants in *)
(* src/unnamed/part_000).  Each variant's main starts ListenAndServe on a  *)
(* goroutine, registers a signal channel, blocks on it, and then calls     *)
(* server.Shutdown with a timeout context.                                 *)
(*                                                                         *)
(* The calls into net/http and os/signal are modelled step by step at the  *)
(* points where another goroutine can interleave:                          *)
(*   ListenAndServe: shuttingDown check, net.Listen, trackListener, Accept *)
(*   Shutdown: inShutdown.Store(true), closeListenersLocked, then the loop *)
(*             closeIdleConns / select { ctx.Done, poll timer }            *)
(*   signal.Notify: non-blocking send on the buffered channel              *)
(* Time is abstract.  The context deadline (5 s or 10 s) can only pass     *)
(* while main is blocked in Shutdown's select, the single blocking point   *)
(* between WithTimeout and Shutdown's return.                              *)
(***************************************************************************)
EXTENDS Integers, Sequences, FiniteSets, TLC

\* Bounds of the model.
MaxConns == 2
MaxSignals == 2
MaxCount == 2

\* http.StatusOK, written by every handler.
StatusOK == 200

Variants == {"basic", "heartbeat", "json"}
Signals == {"SIGINT", "SIGTERM"}
Paths == {"/", "/health"}
ConnIds == 1..MaxConns

\* An X-Request-Id value "N-suffix" is the pair <<N, suffix>>; the empty
\* header is <<>>.  A client may send an id of the same form as a generated one.
Suffixes == {"a", "b"}
Headers == {<<>>, <<1, "a">>}

VARIABLES
    variant,          \* which of the three programs runs
    mainPc,           \* position of main
    lsPc,             \* position of the goroutine running ListenAndServe
    bgPc,             \* heartbeat variant: position of backgroundWorker
    inShutdown,       \* server.inShutdown
    listener,         \* the net.Listener: "none", "open", "closed"
    tracked,          \* the listener is in server.listeners (trackListener)
    conns,            \* connections: state and path of the current request
    sigch,            \* the buffered signal channel (capacity 1)
    registered,       \* signal.Notify has run
    delivered,        \* signals delivered to the process so far
    ctx,              \* the timeout context: "none", "armed", "done"
    sdErr,            \* what Shutdown returned: "unset", "nil", "deadline"
    log,              \* messages logged so far
    exit,             \* "running", or how the process ended: "0", "1", "signal"
    atStop,           \* history: connections with a request in flight when Shutdown was called
    lateAtDeadline,   \* history: one of those was still in flight when the deadline passed
    pendingAtTimeout, \* history: a request was in flight when Shutdown gave up on the deadline
    firstSweep,       \* history: what Shutdown's first closeIdleConns found: "none" yet, "quiet", "busy"
    lastHealth,       \* history: <<lifecycle state, status>> of the latest /health answer
    calls,            \* history: how often main ran go ListenAndServe, <-shutdown, Shutdown
    requestCount,     \* heartbeat variant: the global requestCount
    rootCalls,        \* history: "/" handler invocations that have executed their increment
    hbRead,           \* heartbeat variant: what heartbeat last loaded from requestCount (-1: nothing yet)
    reqCounter,       \* JSON variant: the global reqCounter
    genIds,           \* history: the ids requestID has returned, in order
    lastResp          \* history: inbound and outbound X-Request-Id of the latest response

vars == <<variant, mainPc, lsPc, bgPc, inShutdown, listener, tracked, conns, sigch,
          registered, delivered, ctx, sdErr, log, exit, atStop, lateAtDeadline,
          pendingAtTimeout, firstSweep, lastHealth, calls, requestCount, rootCalls,
          hbRead, reqCounter, genIds, lastResp>>

srvVars == <<inShutdown, listener, tracked>>
sigVars == <<sigch, registered, delivered>>
cntVars == <<requestCount, rootCalls, hbRead, reqCounter, genIds, lastResp>>
histVars == <<atStop, lateAtDeadline, pendingAtTimeout, firstSweep, lastHealth>>

NoConn == [st |-> "free", path |-> ""]

Open(c) == conns[c].st \in {"new", "stale", "active", "idle"}
Active == {c \in ConnIds : conns[c].st = "active"}
OpenConns == {c \in ConnIds : Open(c)}

\* The handle state of the specification, read off the program's state.
State ==
    IF lsPc \in {"error", "exit1"} THEN "Failed"
    ELSE IF sdErr # "unset" THEN "Stopped"
    ELSE IF inShutdown THEN "Stopping"
    ELSE IF lsPc = "serving" THEN "Running"
    ELSE IF lsPc # "none" THEN "Starting"
    ELSE "Idle"

Init ==
    /\ variant \in Variants
    /\ mainPc = "start"
    /\ lsPc = "none"
    /\ bgPc = "none"
    /\ inShutdown = FALSE
    /\ listener = "none"
    /\ tracked = FALSE
    /\ conns = [c \in ConnIds |-> NoConn]
    /\ sigch = <<>>
    /\ registered = FALSE
    /\ delivered = 0
    /\ ctx = "none"
    /\ sdErr = "unset"
    /\ log = {}
    /\ exit = "running"
    /\ atStop = {}
    /\ lateAtDeadline = FALSE
    /\ pendingAtTimeout = FALSE
    /\ firstSweep = "none"
    /\ lastHealth = <<>>
    /\ calls = [listen |-> 0, recv |-> 0, shutdown |-> 0]
    /\ requestCount = 0
    /\ rootCalls = 0
    /\ hbRead = -1
    /\ reqCounter = 0
    /\ genIds = <<>>
    /\ lastResp = <<>>

\* The process ends: the operating system closes every socket it holds.  A
\* connection whose request is still in flight is cut off.
ExitProcess(code) ==
    /\ exit' = code
    /\ conns' = [c \in ConnIds |->
                    IF conns[c].st = "active" THEN [st |-> "cut", path |-> ""]
                    ELSE IF Open(c) THEN [st |-> "reset", path |-> ""]
                    ELSE conns[c]]

--------------------------------------------------------------------------
\* main

\* main up to the construction of the server: the start-up log line, the
\* background goroutines of the heartbeat variant, the start-up delay of the
\* JSON-logging variant.
MainStart ==
    /\ exit = "running" /\ mainPc = "start"
    /\ mainPc' = "setup"
    /\ log' = log \cup (IF variant = "json" THEN {} ELSE {"service starting"})
    /\ bgPc' = IF variant = "heartbeat" THEN "wait" ELSE bgPc
    /\ UNCHANGED <<variant, calls, cntVars, lsPc, srvVars, conns, sigVars, ctx, sdErr, exit, histVars>>

\* Mutant: main launches the listener goroutine in a loop.
MutGoListen ==
    /\ exit = "running" /\ mainPc = "setup"
    /\ lsPc' = "launched"
    /\ calls' = [calls EXCEPT !.listen = @ + 1]
    /\ UNCHANGED <<variant, cntVars, mainPc, bgPc, srvVars, conns, sigVars, ctx, sdErr, log, exit,
                   histVars>>

\* go func() { ... server.ListenAndServe() ... }()
GoListen ==
    /\ exit = "running" /\ mainPc = "setup"
    /\ mainPc' = "notify"
    /\ lsPc' = "launched"
    /\ calls' = [calls EXCEPT !.listen = @ + 1]
    /\ UNCHANGED <<variant, cntVars, bgPc, srvVars, conns, sigVars, ctx, sdErr, log, exit, histVars>>

\* shutdown := make(chan os.Signal, 1); signal.Notify(shutdown, SIGINT, SIGTERM)
SignalNotify ==
    /\ exit = "running" /\ mainPc = "notify"
    /\ mainPc' = "wait"
    /\ registered' = TRUE
    /\ UNCHANGED <<variant, calls, cntVars, lsPc, bgPc, srvVars, conns, sigch, delivered, ctx, sdErr,
                   log, exit, histVars>>

\* Mutant: the receive does not wait for a signal.
MutRecvReady == TRUE

\* The guard of <-shutdown: the channel holds a signal.
RecvReady == sigch # <<>>

\* <-shutdown, then the "shutdown signal received" log line.
RecvShutdown ==
    /\ exit = "running" /\ mainPc = "wait"
    /\ RecvReady
    /\ sigch' = IF sigch = <<>> THEN sigch ELSE Tail(sigch)
    /\ log' = log \cup {"shutdown signal received"}
    /\ mainPc' = "ctx"
    /\ calls' = [calls EXCEPT !.recv = @ + 1]
    /\ UNCHANGED <<variant, cntVars, lsPc, bgPc, srvVars, conns, registered, delivered, ctx,
                   sdErr, exit, histVars>>

\* ctx, cancel := context.WithTimeout(context.Background(), 5 or 10 seconds)
WithTimeout ==
    /\ exit = "running" /\ mainPc = "ctx"
    /\ ctx' = "armed"
    /\ mainPc' = "shutdown"
    /\ UNCHANGED <<variant, calls, cntVars, lsPc, bgPc, srvVars, conns, sigVars, sdErr, log, exit,
                   histVars>>

\* Mutant: closeIdleConns overlooks active connections.
MutBusy(cs) == {c \in ConnIds : cs[c].st = "new"}

\* The connections closeIdleConns leaves alone and reports as not quiescent:
\* a connection is busy while it is new (no request read yet, younger than
\* five seconds) or active; idle and stale new ones are closed.
Busy(cs) == {c \in ConnIds : cs[c].st \in {"new", "active"}}

Sweep(cs) ==
    [c \in ConnIds |->
        IF cs[c].st \in {"idle", "stale"} THEN [st |-> "closed", path |-> ""]
        ELSE cs[c]]

\* Mutant: Shutdown leaves the listener open.
MutCloseListeners(l) == l

\* closeListenersLocked: every listener in server.listeners is closed.
CloseListeners(l) == IF tracked THEN "closed" ELSE l

\* server.Shutdown(ctx), first statement: srv.inShutdown.Store(true)
ShutdownStore ==
    /\ exit = "running" /\ mainPc = "shutdown"
    /\ inShutdown' = TRUE
    /\ atStop' = Active
    /\ mainPc' = "sd_close"
    /\ calls' = [calls EXCEPT !.shutdown = @ + 1]
    /\ UNCHANGED <<variant, cntVars, lsPc, bgPc, listener, tracked, conns, sigVars, ctx, sdErr,
                   log, exit, lateAtDeadline, pendingAtTimeout, firstSweep, lastHealth>>

\* server.Shutdown(ctx): srv.mu.Lock(); closeListenersLocked(); srv.mu.Unlock()
ShutdownCloseListeners ==
    /\ exit = "running" /\ mainPc = "sd_close"
    /\ listener' = CloseListeners(listener)
    /\ mainPc' = "sd_sweep"
    /\ UNCHANGED <<variant, calls, cntVars, lsPc, bgPc, inShutdown, tracked, conns, sigVars, ctx, sdErr,
                   log, exit, histVars>>

\* Mutant: closeIdleConns waits for idle connections instead of closing them.
MutQuiescent(cs) == \A c \in ConnIds : cs[c].st \notin {"new", "stale", "active", "idle"}

\* closeIdleConns reports the server quiescent: no connection is busy.
Quiescent(cs) == Busy(cs) = {}

\* server.Shutdown(ctx), the loop: if srv.closeIdleConns() { return lnerr }
ShutdownSweep ==
    /\ exit = "running" /\ mainPc = "sd_sweep"
    /\ conns' = Sweep(conns)
    /\ firstSweep' = IF firstSweep # "none" THEN firstSweep
                     ELSE IF \A c \in ConnIds : conns[c].st \notin {"new", "active"}
                             THEN "quiet" ELSE "busy"
    /\ IF Quiescent(conns)
          THEN sdErr' = "nil" /\ mainPc' = "report"
          ELSE sdErr' = sdErr /\ mainPc' = "sd_select"
    /\ UNCHANGED <<variant, calls, cntVars, lsPc, bgPc, srvVars, sigVars, ctx, log, exit, atStop,
                   lateAtDeadline, pendingAtTimeout, lastHealth>>

\* The deadline of the timeout context passes.
TimerFire ==
    /\ exit = "running" /\ mainPc = "sd_select"
    /\ ctx = "armed"
    /\ ctx' = "done"
    /\ lateAtDeadline' = (atStop \cap Active # {})
    /\ UNCHANGED <<variant, calls, cntVars, mainPc, lsPc, bgPc, srvVars, conns, sigVars, sdErr, log,
                   exit, atStop, pendingAtTimeout, firstSweep, lastHealth>>

\* server.Shutdown(ctx), the loop: case <-ctx.Done(): return ctx.Err()
ShutdownCtxDone ==
    /\ exit = "running" /\ mainPc = "sd_select"
    /\ ctx = "done"
    /\ sdErr' = "deadline"
    /\ pendingAtTimeout' = (Active # {})
    /\ mainPc' = "report"
    /\ UNCHANGED <<variant, calls, cntVars, lsPc, bgPc, srvVars, conns, sigVars, ctx, log, exit, atStop,
                   lateAtDeadline, firstSweep, lastHealth>>

\* server.Shutdown(ctx), the loop: case <-timer.C: poll again.  Go's select
\* takes either case when both are ready.
ShutdownPoll ==
    /\ exit = "running" /\ mainPc = "sd_select"
    /\ mainPc' = "sd_sweep"
    /\ UNCHANGED <<variant, calls, cntVars, lsPc, bgPc, srvVars, conns, sigVars, ctx, sdErr, log, exit,
                   histVars>>

\* The two log lines after Shutdown, per variant.
CleanMsg ==
    CASE variant = "basic" -> "server shutdown complete"
      [] variant = "heartbeat" -> "server stopped cleanly"
      [] OTHER -> "server stopped"

ErrorMsg ==
    CASE variant = "basic" -> "server shutdown error"
      [] OTHER -> "graceful shutdown failed"

\* Mutant: the error of Shutdown is swallowed.
MutOutcomeMsg(err) == CleanMsg

\* if err := server.Shutdown(ctx); err != nil { log error } else { log success }
OutcomeMsg(err) == IF err # "nil" THEN ErrorMsg ELSE CleanMsg

LogOutcome ==
    /\ exit = "running" /\ mainPc = "report"
    /\ log' = log \cup {OutcomeMsg(sdErr)}
    /\ mainPc' = "return"
    /\ UNCHANGED <<variant, calls, cntVars, lsPc, bgPc, srvVars, sigVars, ctx, sdErr, histVars>>
    /\ UNCHANGED <<conns, exit>>

\* main returns: the process exits with status 0.
MainReturn ==
    /\ exit = "running" /\ mainPc = "return"
    /\ mainPc' = "done"
    /\ ExitProcess("0")
    /\ UNCHANGED <<variant, calls, cntVars, lsPc, bgPc, srvVars, sigVars, ctx, sdErr, log, histVars>>

--------------------------------------------------------------------------
\* The goroutine that runs server.ListenAndServe

\* logger.Println("http server listening on ...")
LsLog ==
    /\ exit = "running" /\ lsPc = "launched"
    /\ log' = log \cup {"http server listening"}
    /\ lsPc' = "check"
    /\ UNCHANGED <<variant, calls, cntVars, mainPc, bgPc, srvVars, conns, sigVars, ctx, sdErr, exit,
                   histVars>>

\* Mutant: the server takes itself to be shutting down from the start.
MutShuttingDown == TRUE

\* srv.shuttingDown(): srv.inShutdown.Load()
shuttingDown == inShutdown

\* ListenAndServe: if srv.shuttingDown() { return ErrServerClosed }
LsCheck ==
    /\ exit = "running" /\ lsPc = "check"
    /\ lsPc' = IF shuttingDown THEN "ended" ELSE "bind"
    /\ UNCHANGED <<variant, calls, cntVars, mainPc, bgPc, srvVars, conns, sigVars, ctx, sdErr, log, exit,
                   histVars>>

\* ListenAndServe: ln, err := net.Listen("tcp", addr); if err != nil { return err }
LsBind ==
    /\ exit = "running" /\ lsPc = "bind"
    /\ \E ok \in BOOLEAN :
          IF ok THEN listener' = "open" /\ lsPc' = "track"
                ELSE listener' = listener /\ lsPc' = "error"
    /\ UNCHANGED <<variant, calls, cntVars, mainPc, bgPc, inShutdown, tracked, conns, sigVars, ctx, sdErr,
                   log, exit, histVars>>

\* Serve: if !srv.trackListener(&l, true) { return ErrServerClosed }, with the
\* deferred l.Close()
LsTrack ==
    /\ exit = "running" /\ lsPc = "track"
    /\ IF shuttingDown
          THEN listener' = "closed" /\ tracked' = tracked /\ lsPc' = "ended"
          ELSE listener' = listener /\ tracked' = TRUE /\ lsPc' = "serving"
    /\ UNCHANGED <<variant, calls, cntVars, mainPc, bgPc, inShutdown, conns, sigVars, ctx, sdErr, log,
                   exit, histVars>>

\* The guard of a successful l.Accept(): the listener is open.
AcceptReady == listener = "open"

\* Connection ids are handed out in order.
NextFree(c) == conns[c].st = "free" /\ \A d \in ConnIds : d < c => conns[d].st # "free"

\* Serve: rw, err := l.Accept(); c.setState(StateNew); go c.serve()
Accept(c) ==
    /\ exit = "running" /\ lsPc = "serving"
    /\ AcceptReady
    /\ NextFree(c)
    /\ conns' = [conns EXCEPT ![c] = [st |-> "new", path |-> ""]]
    /\ UNCHANGED <<variant, calls, cntVars, mainPc, lsPc, bgPc, srvVars, sigVars, ctx, sdErr, log, exit,
                   histVars>>

\* Serve: l.Accept() fails on the closed listener; if srv.shuttingDown()
\* { return ErrServerClosed }, else the error is returned.
LsAcceptError ==
    /\ exit = "running" /\ lsPc = "serving"
    /\ listener = "closed"
    /\ tracked' = FALSE
    /\ lsPc' = IF shuttingDown THEN "ended" ELSE "error"
    /\ UNCHANGED <<variant, calls, cntVars, mainPc, bgPc, inShutdown, listener, conns, sigVars, ctx,
                   sdErr, log, exit, histVars>>

\* err != nil && err != http.ErrServerClosed: the error is logged ...
LsLogError ==
    /\ exit = "running" /\ lsPc = "error"
    /\ log' = log \cup {"listen error"}
    /\ lsPc' = "exit1"
    /\ UNCHANGED <<variant, calls, cntVars, mainPc, bgPc, srvVars, conns, sigVars, ctx, sdErr, exit,
                   histVars>>

\* ... and the process exits with status 1 (logger.Fatalf, or os.Exit(1)).
LsExit ==
    /\ exit = "running" /\ lsPc = "exit1"
    /\ ExitProcess("1")
    /\ UNCHANGED <<variant, calls, cntVars, mainPc, lsPc, bgPc, srvVars, sigVars, ctx, sdErr, log,
                   histVars>>

--------------------------------------------------------------------------
\* Connections: one goroutine each (conn.serve)

\* A new connection has sent no request for five seconds: closeIdleConns
\* now treats it as idle.
NewConnAges(c) ==
    /\ exit = "running"
    /\ conns[c].st = "new"
    /\ conns' = [conns EXCEPT ![c].st = "stale"]
    /\ UNCHANGED <<variant, calls, cntVars, mainPc, lsPc, bgPc, srvVars, sigVars, ctx, sdErr, log, exit,
                   histVars>>

\* conn.serve: a request for path p has been read; the connection is active.
ReadRequest(c, p) ==
    /\ exit = "running"
    /\ conns[c].st \in {"new", "stale", "idle"}
    /\ conns' = [conns EXCEPT ![c] = [st |-> "active", path |-> p]]
    /\ UNCHANGED <<variant, calls, cntVars, mainPc, lsPc, bgPc, srvVars, sigVars, ctx, sdErr, log, exit,
                   histVars>>

\* The /health handler: w.WriteHeader(http.StatusOK); w.Write([]byte("ok"))
HealthStatus == StatusOK

\* After the response the connection is kept (idle) only if the client asks
\* for keep-alive and the server is not shutting down (doKeepAlives).
AfterResponse(keep) == IF keep /\ ~inShutdown THEN "idle" ELSE "closed"

\* Mutant: the increment is a plain read-modify-write, so that one of two
\* concurrent increments is lost.
MutAddUint64(n) == IF Cardinality(Active) > 1 THEN n ELSE n + 1

\* atomic.AddUint64(&counter, 1): the new value, read and written in one step.
AddUint64(n) == n + 1

\* The "/" handler of the heartbeat variant: count := atomic.AddUint64(&requestCount, 1).
\* The /health handler leaves the counter alone.
CountRequest(p) ==
    IF variant = "heartbeat" /\ p = "/"
       THEN /\ requestCount < MaxCount
            /\ requestCount' = AddUint64(requestCount)
       ELSE UNCHANGED requestCount

\* requestID(): the new counter value, "-", a random number in base 36.
requestID(r) == <<AddUint64(reqCounter), r>>

\* Mutant: the middleware generates an id for every request.
MutGenerates(hdr) == TRUE

\* withMiddleware: if rid == "" { rid = requestID() }
Generates(hdr) == hdr = <<>>

\* withMiddleware of the JSON-logging variant wraps both routes: the response
\* header X-Request-Id is the inbound one, or a generated one if that is empty.
Middleware ==
    IF variant = "json"
       THEN \E hdr \in Headers, r \in Suffixes :
               IF Generates(hdr)
                  THEN /\ reqCounter < MaxCount
                       /\ reqCounter' = requestID(r)[1]
                       /\ genIds' = Append(genIds, requestID(r))
                       /\ lastResp' = <<hdr, requestID(r)>>
                  ELSE /\ lastResp' = <<hdr, hdr>>
                       /\ UNCHANGED <<reqCounter, genIds>>
       ELSE UNCHANGED <<reqCounter, genIds, lastResp>>

\* The handler runs and the response is written; the request is finished.
ServeRequest(c) ==
    /\ exit = "running"
    /\ conns[c].st = "active"
    /\ \E keep \in BOOLEAN :
          conns' = [conns EXCEPT ![c] = [st |-> AfterResponse(keep), path |-> ""]]
    /\ lastHealth' = IF conns[c].path = "/health"
                        THEN <<State, HealthStatus>>
                        ELSE lastHealth
    /\ Middleware
    /\ CountRequest(conns[c].path)
    /\ rootCalls' = IF variant = "heartbeat" /\ conns[c].path = "/"
                       THEN rootCalls + 1
                       ELSE rootCalls
    /\ UNCHANGED <<variant, calls, hbRead, mainPc, lsPc, bgPc, srvVars, sigVars, ctx, sdErr, log, exit,
                   atStop, lateAtDeadline, pendingAtTimeout, firstSweep>>

--------------------------------------------------------------------------
\* Signals

\* Mutant: the signal channel is unbuffered.
MutChanCap == Len(<<>>)

\* Capacity of the signal channel: make(chan os.Signal, 1)
ChanCap == 1

\* Mutant: os/signal sends on the channel with a blocking send.
MutDeliver(s) ==
    /\ exit = "running"
    /\ delivered < MaxSignals
    /\ registered
    /\ Len(sigch) < ChanCap
    /\ delivered' = delivered + 1
    /\ sigch' = Append(sigch, s)
    /\ UNCHANGED <<variant, calls, cntVars, mainPc, lsPc, bgPc, srvVars, conns, registered, ctx,
                   sdErr, log, exit, histVars>>

\* The operating system delivers SIGINT or SIGTERM.  Before signal.Notify the
\* default disposition ends the process; after it, os/signal sends on the
\* channel without blocking and drops the signal when the buffer is full.
Deliver(s) ==
    /\ exit = "running"
    /\ delivered < MaxSignals
    /\ delivered' = delivered + 1
    /\ IF registered
          THEN /\ sigch' = IF Len(sigch) < ChanCap THEN Append(sigch, s) ELSE sigch
               /\ UNCHANGED <<conns, exit>>
          ELSE /\ sigch' = sigch
               /\ ExitProcess("signal")
    /\ UNCHANGED <<variant, calls, cntVars, mainPc, lsPc, bgPc, srvVars, registered, ctx, sdErr, log,
                   histVars>>

--------------------------------------------------------------------------
\* Background goroutines of the heartbeat variant

\* heartbeat: for t := range ticker.C { logger.Printf("heartbeat ... requests=%d",
\* atomic.LoadUint64(&requestCount)) }.  Nothing ends the loop but the process.
heartbeat ==
    /\ exit = "running"
    /\ bgPc # "none"
    /\ hbRead' = requestCount
    /\ UNCHANGED <<variant, calls, requestCount, rootCalls, reqCounter, genIds, lastResp, mainPc,
                   lsPc, bgPc, srvVars, conns, sigVars, ctx, sdErr, log, exit, histVars>>

\* backgroundWorker: for range ticker.C { "job started"; Sleep; "job completed" }
backgroundWorker ==
    /\ exit = "running"
    /\ bgPc # "none"
    /\ bgPc' = IF bgPc = "wait" THEN "job" ELSE "wait"
    /\ UNCHANGED <<variant, calls, cntVars, mainPc, lsPc, srvVars, conns, sigVars, ctx, sdErr, log, exit,
                   histVars>>

--------------------------------------------------------------------------

Next ==
    \/ MainStart
    \/ GoListen
    \/ SignalNotify
    \/ RecvShutdown
    \/ WithTimeout
    \/ ShutdownStore
    \/ ShutdownCloseListeners
    \/ ShutdownSweep
    \/ TimerFire
    \/ ShutdownCtxDone
    \/ ShutdownPoll
    \/ LogOutcome
    \/ MainReturn
    \/ LsLog
    \/ LsCheck
    \/ LsBind
    \/ LsTrack
    \/ LsAcceptError
    \/ LsLogError
    \/ LsExit
    \/ \E c \in ConnIds : Accept(c)
    \/ \E c \in ConnIds : NewConnAges(c)
    \/ \E c \in ConnIds, p \in Paths : ReadRequest(c, p)
    \/ \E c \in ConnIds : ServeRequest(c)
    \/ \E s \in Signals : Deliver(s)
    \/ heartbeat
    \/ backgroundWorker

Spec == Init /\ [][Next]_vars

\* The steps main takes on its own, without waiting for a signal or a timer.
MainStep ==
    \/ MainStart \/ GoListen \/ SignalNotify \/ RecvShutdown \/ WithTimeout
    \/ ShutdownStore \/ ShutdownCloseListeners \/ ShutdownSweep
    \/ LogOutcome \/ MainReturn

\* The steps of the goroutine that runs ListenAndServe.
ListenStep ==
    \/ LsLog \/ LsCheck \/ LsBind \/ LsTrack \/ LsAcceptError \/ LsLogError \/ LsExit

\* The Go scheduler runs every runnable goroutine eventually, the timer of
\* the context fires, and a select that finds ctx.Done() ready again and
\* again takes it eventually.  Clients are under no obligation.
FairSpec ==
    /\ Spec
    /\ WF_vars(MainStep)
    /\ WF_vars(ListenStep)
    /\ WF_vars(TimerFire)
    /\ SF_vars(ShutdownCtxDone)

--------------------------------------------------------------------------
\* Properties

\* What main reported after Shutdown.
Outcome ==
    IF ErrorMsg \in log THEN "forced"
    ELSE IF CleanMsg \in log THEN "clean"
    ELSE "none"

ShutdownReturned == sdErr # "unset"
ListenFailed == lsPc \in {"error", "exit1"}

Forward(s, t) ==
    \/ s = t
    \/ <<s, t>> \in {<<"Idle", "Starting">>, <<"Starting", "Running">>,
                     <<"Running", "Stopping">>, <<"Stopping", "Stopped">>,
                     <<"Starting", "Failed">>, <<"Running", "Failed">>}

\* C1: the handle state only moves forward along Idle -> Starting -> Running
\* -> Stopping -> Stopped, with Failed reachable only from Starting or
\* Running; no step skips a state, moves backward or leaves Stopped or Failed.
C1_ForwardOnly == [][Forward(State, State')]_vars

Accepts == \E c \in ConnIds : conns[c].st = "free" /\ conns'[c].st = "new"

\* C5 (as claimed): from the moment Shutdown is invoked, no new connection
\* is accepted.
C5_NoAcceptAfterStop == [][inShutdown => ~Accepts]_vars

\* C5 (amended): from the moment Shutdown has closed the listeners, no new
\* connection is accepted, also while requests in flight are draining.
C5_NoAcceptAfterClose ==
    [][(mainPc \in {"sd_sweep", "sd_select", "report", "return", "done"}) => ~Accepts]_vars

\* C5, witness: Shutdown has closed the listener while a request is still in
\* flight and the server never used all its connections.
C5_Witness ==
    /\ mainPc = "sd_select" /\ listener = "closed" /\ lsPc = "serving"
    /\ Active # {}
    /\ \E c \in ConnIds : conns[c].st = "free"

\* C6: /health answers with a success status while the handle is Running and
\* with an error status once it is Stopping.
C6_HealthByState ==
    lastHealth # <<>> =>
        /\ lastHealth[1] = "Running" => lastHealth[2] = StatusOK
        /\ lastHealth[1] = "Stopping" => lastHealth[2] >= 500

\* C7: the process exits non-zero if the listener failed, and zero after a
\* stop, clean or forced: never zero after a listen failure, never non-zero
\* after Shutdown has returned.
C7_ExitStatus ==
    /\ (exit # "running" /\ ListenFailed) => exit # "0"
    /\ (exit # "running" /\ ShutdownReturned) => exit = "0"

\* C9: main passes <-shutdown, and Shutdown is invoked, only after a SIGINT
\* or SIGTERM has been delivered to the process with the handler registered.
C9_ShutdownOnlyAfterSignal ==
    (mainPc \notin {"start", "setup", "notify", "wait"} \/ inShutdown \/ ctx # "none") =>
        (registered /\ delivered >= 1 /\ "shutdown signal received" \in log)

\* C9, witness: Shutdown has been invoked.
C9_Witness == inShutdown /\ mainPc = "sd_close" /\ delivered = 1

\* C10: once Shutdown has started, the process only ends at the end of main,
\* with the clean or the forced outcome logged: nothing cancels the stop.
C10_StopRunsToCompletion ==
    (inShutdown /\ exit # "running") =>
        (mainPc = "done" /\ exit = "0" /\ Outcome \in {"clean", "forced"})

\* C11: starting the listener does not block main, and when the address can
\* be bound and no termination signal has been delivered the server becomes
\* Running, where the listener accepts connections and /health is answered
\* with status 200.
C11_StartReachesRunning ==
    /\ (mainPc = "notify") ~> (registered \/ exit # "running")
    /\ (lsPc = "launched") ~> (State = "Running" \/ ListenFailed \/ delivered > 0)
    /\ [](State = "Running" => AcceptReady)
    /\ [](lastHealth # <<>> /\ lastHealth[1] = "Running" => lastHealth[2] = StatusOK)

C11_Witness ==
    /\ delivered = 0
    /\ State = "Running"
    /\ lastHealth = <<"Running", StatusOK>>

\* C12: at most one goroutine runs ListenAndServe, so at most one accept
\* loop is active for the server, before, during and after shutdown; a
\* goroutine that has left ListenAndServe never enters it again.
C12_OneAcceptLoop ==
    /\ calls.listen <= 1
    /\ lsPc # "none" => calls.listen = 1
    /\ Cardinality({c \in ConnIds : conns[c].st # "free"}) > 0 => calls.listen = 1

C12_Witness ==
    /\ ShutdownReturned
    /\ lsPc = "ended"
    /\ calls.listen = 1
    /\ conns[1].st # "free"

\* C13: once ListenAndServe has failed to bind, the server stays Failed:
\* no second bind attempt is made, no connection is ever served and
\* server.Shutdown is not run for that server.
C13_FailedBindIsFinal ==
    [][ListenFailed =>
          /\ ListenFailed'
          /\ listener' = listener
          /\ \A c \in ConnIds : conns'[c].st = "free"
          /\ calls'.shutdown = calls.shutdown]_vars

\* C14: Shutdown takes effect only on a server whose start has resolved: at
\* the step that sets inShutdown the server is Running or Failed, never Idle
\* or Starting.
C14_StopWaitsForStart ==
    [][(~inShutdown /\ inShutdown') => State \in {"Running", "Failed"}]_vars

SignalsAfterNotify == registered /\ delivered >= 1

\* C15 as written: any number of signals delivered after signal.Notify never
\* blocks the sender and results in exactly one receipt by main and exactly one
\* call of server.Shutdown in that process run.
C15_ExactlyOnce ==
    /\ calls.recv <= 1 /\ calls.shutdown <= 1
    /\ (exit # "running" /\ SignalsAfterNotify) => (calls.recv = 1 /\ calls.shutdown = 1)

\* C15, amended: signals delivered after signal.Notify never block the sender
\* (the channel holds at most one, the rest are dropped); main receives at
\* most once and calls server.Shutdown at most once, and exactly once each
\* in every run that ends without a failure of ListenAndServe.
C15_AtMostOnce ==
    /\ calls.recv <= 1 /\ calls.shutdown <= 1
    /\ calls.shutdown <= calls.recv
    /\ Len(sigch) <= ChanCap
    /\ (exit = "running" /\ registered /\ delivered < MaxSignals)
          => \A s \in Signals : ENABLED Deliver(s)
    /\ (exit # "running" /\ SignalsAfterNotify /\ ~ListenFailed)
          => (calls.recv = 1 /\ calls.shutdown = 1)

C15_Witness ==
    /\ exit = "0"
    /\ registered /\ delivered = MaxSignals
    /\ sigch # <<>>
    /\ calls.recv = 1 /\ calls.shutdown = 1

\* C16: the background goroutines stop on the shutdown trigger: by the time
\* stop has finished and main is about to return, neither heartbeat nor
\* backgroundWorker can tick again and no background job is under way.
C16_TasksStopBeforeExit ==
    (variant = "heartbeat" /\ mainPc = "return" /\ exit = "running")
        => (~ENABLED heartbeat /\ ~ENABLED backgroundWorker /\ bgPc # "job")

\* C17: requestCount equals the number of "/" handler runs that have done
\* their increment (none is lost, /health does not count), it never
\* decreases, and heartbeat only ever reads a value the counter has held.
C17_CountIsExact ==
    /\ [](requestCount = rootCalls)
    /\ [](hbRead \in -1..requestCount)
    /\ [][requestCount' >= requestCount]_vars

C17_Witness ==
    /\ requestCount = MaxCount
    /\ hbRead \in 1..(MaxCount - 1)
    /\ lastHealth # <<>>

\* C18: a response carries the inbound X-Request-Id when there is one and the
\* id just generated otherwise; generated ids are pairwise distinct, their
\* numeric prefixes increase strictly, and a request that brings its own id
\* uses up no counter value.
C18_RequestIds ==
    /\ lastResp # <<>> =>
          IF lastResp[1] # <<>>
             THEN lastResp[2] = lastResp[1]
             ELSE genIds # <<>> /\ lastResp[2] = genIds[Len(genIds)]
    /\ \A i, j \in 1..Len(genIds) :
          i < j => genIds[i] # genIds[j] /\ genIds[i][1] < genIds[j][1]
    /\ Len(genIds) = reqCounter

C18_Witness ==
    /\ Len(genIds) = MaxCount
    /\ genIds[1][2] = genIds[2][2]
    /\ genIds[1] \in Headers
    /\ lastResp = <<genIds[1], genIds[1]>>

\* C19 as written: every signal delivered after signal.Notify leads to
\* server.Shutdown: no run ends with such a signal and without the call.
C19_EverySignalLeadsToShutdown ==
    (exit # "running" /\ SignalsAfterNotify) => calls.shutdown = 1

\* C19, amended: signal.Notify runs only after the start-up delay and the
\* launch of the listener goroutine; a signal delivered before it ends the
\* process without reaching the channel or server.Shutdown; a signal
\* delivered after it is captured and leads to server.Shutdown, unless
\* a failure of ListenAndServe ends the process with status 1 first.
C19_SignalAfterNotify ==
    /\ [](registered => (calls.listen = 1 /\ mainPc \notin {"start", "setup", "notify"}))
    /\ []((~registered /\ delivered >= 1) =>
             (exit = "signal" /\ sigch = <<>> /\ calls.recv = 0 /\ calls.shutdown = 0))
    /\ [](SignalsAfterNotify => (exit # "signal" /\ (sigch # <<>> \/ calls.recv = 1)))
    /\ SignalsAfterNotify ~> (calls.shutdown = 1 \/ exit = "1")

C19_Witness ==
    /\ variant = "json"
    /\ SignalsAfterNotify
    /\ calls.shutdown = 1
    /\ lsPc = "serving"

====
